---- MODULE Spec2Model ----
(***************************************************************************)
(* Model of the Cortex Link A8R-M orchestration core:                      *)
(*   EthernetControl (src/src/EthernetControl.cpp)  - link state machine   *)
(*   ModbusComm      (src/src/ModbusComm.cpp)       - RTU master + server  *)
(*   DHTSensors      (src/src/DHT_Sensors.cpp)      - time-gated readings  *)
(*   DigitalInputs   (src/src/DigitalInputs.cpp)    - expander bring-up    *)
(*                                                                         *)
(* The firmware is a single-threaded super-loop, so every public method is *)
(* one atomic action, except the three Modbus master calls, whose blocking *)
(* pump loop is unrolled (mpc) because claims speak about what is pending  *)
(* while the loop runs.  Libraries that are not part of the sources        *)
(* (Ethernet, MCP23017, ModbusRTU) are the environment.                    *)
(*                                                                         *)
(* `now` is the time since boot in ms; millis() is Millis(now), the time   *)
(* truncated to the counter's width, and timestamps are differenced modulo *)
(* that width as unsigned long arithmetic does.  The counter is MillisBits *)
(* wide here, wide enough that only the long-uptime specification          *)
(* (SpecWrap) takes it round.                                              *)
(***************************************************************************)
EXTENDS Integers, Sequences, FiniteSets, TLC

\* ----------------------------------------------------------------- bounds
MaxNow == 12000          \* the control loop's clock stops advancing here (ms)
MaxCount == 2            \* registration range lengths are 0..MaxCount
MaxRegCalls == 2         \* registration calls per behaviour
MaxMasterCalls == 2      \* master calls per behaviour
MaxLoopNow == 4200       \* the paced control loop (LoopPass) stops here (ms)
MillisBits == 14         \* width of the millis() counter in the model (32 on the board)
MaxRuns == 2             \* begin() / update() are called while neither block ran this often

\* -------------------------------------------------------- program constants
CHECK_INTERVAL == 5000       \* EthernetControl.h:115
PUMP_TIMEOUT == 1000         \* ModbusComm.cpp:31 (and 45, 59)
DEFAULT_SLAVE_ID == 1        \* ModbusComm.cpp:75
DEFAULT_BAUD == 9600         \* ModbusComm.cpp:4
ETH_RESET_DURATION == 500    \* Config.h (not among the sources): hold / settle time, ms
READ_INTERVAL == 2000        \* DHT_Sensors.h:42
DI_MAX_ATTEMPTS == 3         \* DigitalInputs.cpp:12
WIRE_SLOW == 50000           \* DigitalInputs.cpp:13
WIRE_NORMAL == 100000        \* DigitalInputs.cpp:34
NUM_RELAY_OUTPUTS == 6       \* Config.h (not among the sources); RelayOutputs.cpp:10
DS18B20_READ_INTERVAL == 1000    \* DHT_Sensors.h:51

\* ------------------------------------------------------------ enumerations
NetworkStates ==
    {"NETWORK_DISCONNECTED", "NETWORK_CONNECTING", "NETWORK_CONNECTED", "NETWORK_ERROR"}
LinkStatuses == {"Unknown", "LinkON", "LinkOFF"}
ZeroIP == 0                  \* IPAddress(0,0,0,0)
IPs == {ZeroIP, 1, 2}        \* 1 = a static address, 2 = a DHCP lease
ZeroMac == 0
Macs == {1}
TickSteps == {1000, 5000, 11000}
DhcpTimes == {0, 1000}

VARIABLES
    \* EthernetControl fields
    state, dhcpMode, macAddress, lastConnectionAttempt, lastCheckTime, checkAt,
    mcpDevice, mcpInitialized,
    \* hardware / environment seen by EthernetControl
    resetPin,          \* level last written to MCP_ETH_RESET_PIN ("unset" before any write)
    resetPinMode,      \* "unset" | "OUTPUT"
    localIP,           \* Ethernet.localIP()
    linkStatus,        \* what Ethernet.linkStatus() reports
    drops,             \* Connected -> Disconnected transitions task() has made since the
                       \* link last went down or begin() last ran
    beginOk,           \* some begin() call has returned true
    now,               \* millis()
    \* DHTSensors fields
    lastReadTime, lastDS18B20ReadTime, ds18b20Count,
    readAt, dsAt,      \* time since boot at which each timestamp was taken
    dhtBegun,          \* begin() has created the DHT / OneWire / DallasTemperature objects
    sensorConnected,   \* sensorConnected[0]
    dhtRuns, dsRuns,   \* times the DHT block / the DS18B20 block of update() was entered
    \* DigitalInputs fields and the I2C bus clock
    lastInputState,
    wireClock,         \* last Wire.setClock() value; 0 = never set
    \* RelayOutputs field and the expander pins it drives
    relayStates,
    relayPins,         \* level last written to each relay pin ("unset" before any write)
    \* ModbusComm fields and the ModbusRTU object it owns
    baudRate, mbServerEnabled,
    mbBegun,           \* ModbusComm::begin has run (mb.begin, mb.master)
    mbSlaveId,         \* server id handed to mb.server(); 0 = none
    serverCalls,       \* number of mb.server() invocations
    regs,              \* [kind -> set of registered addresses]
    onGet, onSet,      \* [kind -> [address -> callback or "none"]]
    regCalls,          \* registration calls made so far
    \* master transaction
    mpc,               \* "idle" | "pump": position of the control thread
    req,               \* the master call being executed / last executed, with its arguments
    startTime,         \* startTime local of the executing call
    startAt,           \* time since boot at which startTime was taken
    txOpen,            \* a request was sent and no valid response has been taken for it
    txStart,           \* when it was sent
    txResponded,       \* the executing call got a valid response
    data,              \* the caller's buffer handed to readRegisters
    requestsIssued,    \* requests put on the wire so far
    overlaps,          \* requests put on the wire while another was pending
    masterCalls,       \* master calls started so far
    \* observation of the last operation
    op,                \* its name
    stateWas,          \* EthernetControl's state when it began
    ret,               \* its return value ("void" for void, "none" before any)
    callLog            \* the hardware / library calls it made, in order

ethVars == <<state, dhcpMode, macAddress, lastConnectionAttempt, lastCheckTime, checkAt,
             mcpDevice, mcpInitialized, resetPin, resetPinMode, localIP, linkStatus, drops,
             beginOk>>
sensVars == <<lastReadTime, lastDS18B20ReadTime, readAt, dsAt, ds18b20Count, dhtBegun, sensorConnected,
              dhtRuns, dsRuns>>
diVars == <<lastInputState, wireClock>>
relayVars == <<relayStates, relayPins>>
ioVars == <<sensVars, diVars, relayVars>>
mbVars == <<baudRate, mbServerEnabled, mbBegun, mbSlaveId, serverCalls, regs, onGet, onSet,
            regCalls, mpc, req, startTime, startAt, txOpen, txStart, txResponded, data,
            requestsIssued, overlaps, masterCalls>>
obsVars == <<op, stateWas, ret, callLog>>
vars == <<ethVars, mbVars, ioVars, now, obsVars>>

\* ------------------------------------------------------------ Modbus sets
Kinds == {"Hreg", "Ireg", "Coil", "Ists"}
StartAddrs == {0, 1}
Addrs == 0 .. (1 + MaxCount)
Callbacks == {"cbA", "cbB"}
NoRegs == [k \in Kinds |-> {}]
NoCallbacks == [k \in Kinds |-> [a \in Addrs |-> "none"]]
Values == {0, 7}
BufLen == 2
ZeroBuf == [i \in 0 .. (BufLen - 1) |-> 0]
MasterFns == {"readRegisters", "writeRegister", "writeMultipleRegisters"}
NoReq == [fn |-> "none", slaveAddr |-> 0, regAddr |-> 0, numRegs |-> 0]
Bauds == {9600, 19200}
PumpDelays == {400, 1000}    \* time one pass of the pump loop takes (mb.task() + delay(1))

\* ---------------------------------------------------------------- Init
\* EthernetControl::EthernetControl and ModbusComm::ModbusComm; the link is in
\* whatever condition the cable is in.
InitEth ==
    /\ state = "NETWORK_DISCONNECTED"
    /\ dhcpMode = TRUE
    /\ macAddress = ZeroMac
    /\ lastConnectionAttempt = 0
    /\ lastCheckTime = 0
    /\ checkAt = 0
    /\ mcpDevice = "nullptr"
    /\ mcpInitialized = FALSE
    /\ resetPin = "unset"
    /\ resetPinMode = "unset"
    /\ localIP = ZeroIP
    /\ linkStatus \in LinkStatuses
    /\ drops = 0
    /\ beginOk = FALSE

InitMb ==
    /\ baudRate = DEFAULT_BAUD
    /\ mbServerEnabled = FALSE
    /\ mbBegun = FALSE
    /\ mbSlaveId = 0
    /\ serverCalls = 0
    /\ regs = NoRegs
    /\ onGet = NoCallbacks
    /\ onSet = NoCallbacks
    /\ regCalls = 0
    /\ mpc = "idle"
    /\ req = NoReq
    /\ startTime = 0
    /\ startAt = 0
    /\ txOpen = FALSE
    /\ txStart = 0
    /\ txResponded = FALSE
    /\ data \in {ZeroBuf, [i \in 0 .. (BufLen - 1) |-> 7]}
    /\ requestsIssued = 0
    /\ overlaps = 0
    /\ masterCalls = 0

\* DHTSensors::DHTSensors
InitSens ==
    /\ lastReadTime = 0
    /\ lastDS18B20ReadTime = 0
    /\ readAt = 0
    /\ dsAt = 0
    /\ ds18b20Count = 0
    /\ dhtBegun = FALSE
    /\ sensorConnected = FALSE
    /\ dhtRuns = 0
    /\ dsRuns = 0

\* DigitalInputs::DigitalInputs
InitDi ==
    /\ lastInputState = 0
    /\ wireClock = 0

\* RelayOutputs::RelayOutputs
InitRelay ==
    /\ relayStates = 0
    /\ relayPins = [n \in 0 .. (NUM_RELAY_OUTPUTS - 1) |-> "unset"]

Init ==
    /\ InitEth
    /\ InitMb
    /\ InitSens
    /\ InitDi
    /\ InitRelay
    /\ now = 0
    /\ op = "none"
    /\ stateWas = "NETWORK_DISCONNECTED"
    /\ ret = "none"
    /\ callLog = <<>>

\* millis(): the time since boot, truncated to the width of unsigned long
MILLIS_WRAP == 2 ^ MillisBits
Millis(t) == t % MILLIS_WRAP

\* (mutant) the difference taken without the wrap of unsigned arithmetic
ElapsedSigned(t, since) == t - since

\* unsigned long difference of two millis() readings
Elapsed(t, since) == (t - since) % MILLIS_WRAP

Bool2Ret(b) == IF b THEN "true" ELSE "false"

\* ------------------------------------------------------- EthernetControl
\* initMCP: bind the expander, make the reset pin an output, drive it HIGH.
InitMCP ==
    /\ mpc = "idle"
    /\ mcpDevice' = "mcp"
    /\ resetPinMode' = "OUTPUT"
    /\ resetPin' = "HIGH"
    /\ mcpInitialized' = TRUE
    /\ stateWas' = state
    /\ op' = "initMCP"
    /\ ret' = "true"
    /\ callLog' = <<"pinMode", "W:HIGH">>
    /\ UNCHANGED <<state, dhcpMode, macAddress, lastConnectionAttempt, lastCheckTime, checkAt,
                   localIP, linkStatus, drops, beginOk, now, mbVars, ioVars>>

\* (mutant) the guard of reset() left out
ResetReadyUnchecked == TRUE

\* reset(): the guard of line 103, and what the sequence of lines 110-115 does.
ResetReady == mcpInitialized /\ mcpDevice # "nullptr"
\* (mutant) the line released at once, both delays after it
ResetLogNoHold == IF ResetReady THEN <<"W:LOW", "W:HIGH", "delay", "delay">> ELSE <<>>

ResetLog == IF ResetReady THEN <<"W:LOW", "delay", "W:HIGH", "delay">> ELSE <<>>
ResetPinAfter == IF ResetReady THEN "HIGH" ELSE resetPin
ResetTime == IF ResetReady THEN 2 * ETH_RESET_DURATION ELSE 0

Reset ==
    /\ mpc = "idle"
    /\ now + ResetTime <= MaxNow
    /\ resetPin' = ResetPinAfter
    /\ now' = now + ResetTime
    /\ stateWas' = state
    /\ op' = "reset"
    /\ ret' = Bool2Ret(ResetReady)
    /\ callLog' = ResetLog
    /\ UNCHANGED <<state, dhcpMode, macAddress, lastConnectionAttempt, lastCheckTime, checkAt,
                   mcpDevice, mcpInitialized, resetPinMode, localIP, linkStatus, drops,
                   beginOk, mbVars, ioVars>>

\* begin(): result of lines 63-73 (static: assumed 1; DHCP: what Ethernet.begin(mac) returns)
BeginResult(useStaticIP, dhcpResult) == IF useStaticIP THEN 1 ELSE dhcpResult

\* (mutant) begin() without the 0.0.0.0 check of line 82
BeginStateNoIPCheck(resetOk, result, ip) ==
    IF ~resetOk THEN "NETWORK_ERROR"
    ELSE IF result = 0 THEN "NETWORK_ERROR"
    ELSE "NETWORK_CONNECTED"

\* begin(): the state it leaves (lines 50-54, 75-89); ip is Ethernet.localIP() after bring-up
BeginState(resetOk, result, ip) ==
    IF ~resetOk THEN "NETWORK_ERROR"
    ELSE IF result = 0 THEN "NETWORK_ERROR"
    ELSE IF ip = ZeroIP THEN "NETWORK_ERROR"
    ELSE "NETWORK_CONNECTED"

\* begin(): the hardware / library calls after a successful reset (lines 57-82)
BeginBringUpLog(useStaticIP, result) ==
    <<"Ethernet.init">>
    \o (IF useStaticIP THEN <<"Ethernet.begin.static">>
        ELSE IF result = 0 THEN <<"Ethernet.begin.dhcp:0">> ELSE <<"Ethernet.begin.dhcp:1">>)
    \o (IF result = 0 THEN <<>> ELSE <<"Ethernet.localIP">>)

\* (mutant) begin() bringing the controller up before resetting it
BeginLogBringUpFirst(resetOk, useStaticIP, result) ==
    <<"SPI.begin">> \o BeginBringUpLog(useStaticIP, result) \o ResetLog

\* begin(): everything it calls, in order (lines 47, 50, 57-82)
BeginLog(resetOk, useStaticIP, result) ==
    <<"SPI.begin">> \o ResetLog
    \o (IF resetOk THEN BeginBringUpLog(useStaticIP, result) ELSE <<>>)

\* Ethernet.begin as the environment: the static form programs the given address;
\* DHCP fails (0, no address) or succeeds (1) with some lease, which the code
\* still checks against 0.0.0.0.
Begin(mac, useStaticIP, ip, dhcpResult, lease, dhcpTime) ==
    LET resetOk == ResetReady
        result == BeginResult(useStaticIP, dhcpResult)
        newIP == IF ~resetOk THEN localIP
                 ELSE IF useStaticIP THEN ip
                 ELSE IF dhcpResult = 0 THEN ZeroIP
                 ELSE lease
        dt == ResetTime + (IF resetOk /\ ~useStaticIP THEN dhcpTime ELSE 0)
    IN  /\ mpc = "idle"
        /\ now + dt <= MaxNow
        /\ macAddress' = mac
        /\ dhcpMode' = ~useStaticIP
        /\ resetPin' = ResetPinAfter
        /\ localIP' = newIP
        /\ state' = BeginState(resetOk, result, newIP)
        /\ drops' = 0
        /\ beginOk' = (beginOk \/ BeginState(resetOk, result, newIP) = "NETWORK_CONNECTED")
        /\ now' = now + dt
        /\ stateWas' = state
        /\ op' = "begin"
        /\ ret' = Bool2Ret(BeginState(resetOk, result, newIP) = "NETWORK_CONNECTED")
        /\ callLog' = BeginLog(resetOk, useStaticIP, result)
        /\ UNCHANGED <<lastConnectionAttempt, lastCheckTime, checkAt, mcpDevice, mcpInitialized,
                       resetPinMode, linkStatus, mbVars, ioVars>>

isConnected == state = "NETWORK_CONNECTED"
getState == state

\* task(): the time gate of line 153
CheckDue(currentMillis) == Elapsed(currentMillis, lastCheckTime) >= CHECK_INTERVAL

\* (mutant) task() taking every status but LinkOFF for a link that is up
TaskNextStateElse(st, ls) ==
    IF ls = "LinkOFF" THEN "NETWORK_DISCONNECTED" ELSE "NETWORK_CONNECTED"

\* task(): the link evaluation of lines 164-173
TaskNextState(st, ls) ==
    IF ls = "LinkOFF" THEN "NETWORK_DISCONNECTED"
    ELSE IF ls = "LinkON" /\ st # "NETWORK_CONNECTED" THEN "NETWORK_CONNECTED"
    ELSE st

\* task(); Ethernet.maintain() may renew the lease to another address.
EthTask(renewed) ==
    /\ mpc = "idle"
    /\ IF CheckDue(Millis(now))
       THEN /\ lastCheckTime' = Millis(now)
            /\ checkAt' = now
            /\ localIP' = IF dhcpMode THEN renewed ELSE localIP
            /\ state' = TaskNextState(state, linkStatus)
            /\ drops' = IF state = "NETWORK_CONNECTED"
                            /\ TaskNextState(state, linkStatus) = "NETWORK_DISCONNECTED"
                         THEN drops + 1 ELSE drops
            /\ callLog' = (IF dhcpMode THEN <<"Ethernet.maintain">> ELSE <<>>)
                          \o <<"Ethernet.linkStatus">>
       ELSE /\ UNCHANGED <<lastCheckTime, checkAt, localIP, state, drops>>
            /\ callLog' = <<>>
    /\ stateWas' = state
    /\ op' = "task"
    /\ ret' = "void"
    /\ UNCHANGED <<dhcpMode, macAddress, lastConnectionAttempt, mcpDevice, mcpInitialized,
                   resetPin, resetPinMode, linkStatus, beginOk, now, mbVars, ioVars>>

\* ------------------------------------------------------------ environment
\* The control loop spends d ms elsewhere.
Tick(d) ==
    /\ mpc = "idle"
    /\ now + d <= MaxNow
    /\ now' = now + d
    /\ stateWas' = state
    /\ op' = "tick"
    /\ ret' = "void"
    /\ callLog' = <<>>
    /\ UNCHANGED <<ethVars, mbVars, ioVars>>

\* The cable is plugged, unplugged, or the PHY stops answering.
LinkChange(ls) ==
    /\ mpc = "idle"
    /\ ls # linkStatus
    /\ linkStatus' = ls
    /\ drops' = IF ls = "LinkOFF" THEN 0 ELSE drops
    /\ stateWas' = state
    /\ op' = "link"
    /\ ret' = "void"
    /\ callLog' = <<>>
    /\ UNCHANGED <<state, dhcpMode, macAddress, lastConnectionAttempt, lastCheckTime, checkAt,
                   mcpDevice, mcpInitialized, resetPin, resetPinMode, localIP, beginOk, now,
                   mbVars, ioVars>>

NextEth ==
    \/ InitMCP
    \/ Reset
    \/ \E mac \in Macs, ip \in {ZeroIP, 1} : Begin(mac, TRUE, ip, 1, ZeroIP, 0)
    \/ \E mac \in Macs, dhcpTime \in DhcpTimes : Begin(mac, FALSE, ZeroIP, 0, ZeroIP, dhcpTime)
    \/ \E mac \in Macs, lease \in {ZeroIP, 2}, dhcpTime \in DhcpTimes :
          Begin(mac, FALSE, ZeroIP, 1, lease, dhcpTime)
    \/ \E renewed \in {localIP, 2} : EthTask(renewed)
    \/ \E d \in TickSteps : Tick(d)
    \/ \E ls \in LinkStatuses : LinkChange(ls)

\* The link state machine alone: ModbusComm is constructed and left alone.
InitEthOnly == Init /\ data = ZeroBuf
SpecEth == InitEthOnly /\ [][NextEth]_vars

\* ------------------------------------------------------------ ModbusComm
\* begin(baud): direction pin to receive, serial port, mb.begin, mb.master.
MbBegin(baud) ==
    /\ mpc = "idle"
    /\ baudRate' = baud
    /\ mbBegun' = TRUE
    /\ stateWas' = state
    /\ op' = "mbBegin"
    /\ ret' = "true"
    /\ callLog' = <<"pinMode", "W:LOW", "serial.begin", "mb.begin", "mb.master">>
    /\ UNCHANGED <<ethVars, ioVars, now, mbServerEnabled, mbSlaveId, serverCalls, regs, onGet, onSet,
                   regCalls, mpc, req, startTime, startAt, txOpen, txStart, txResponded, data,
                   requestsIssued, overlaps, masterCalls>>

\* -- RegisterMap of the ModbusRTU object (library; contract of spec 3 / 4.2) --
\* mb.addHreg / addIreg / addCoil / addIsts of one address: an address already in
\* the map of that kind is refused, any other is entered.
MbAddOk(set, a) == a \notin set

\* mb.onGetX / onSetX (offset, cb, numregs): cb is attached to the addresses of the range.
MbAttach(cbs, regAddr, numRegs, cb) ==
    [a \in Addrs |-> IF a >= regAddr /\ a < regAddr + numRegs THEN cb ELSE cbs[a]]

\* -- server-side registration --
\* (mutant) the server role requested on every registration
NeedsServerAlways(enabled) == TRUE

\* the test of lines 74, 96, 117, 139
NeedsServer(enabled) == ~enabled

\* (mutant) the loop starting from result = true, so that an empty range succeeds
RECURSIVE AddLoopZeroOk(_, _, _, _)
AddLoopZeroOk(set, regAddr, numRegs, i) ==
    IF i >= numRegs THEN [result |-> TRUE, set |-> set]
    ELSE IF MbAddOk(set, regAddr + i)
         THEN AddLoopZeroOk(set \cup {regAddr + i}, regAddr, numRegs, i + 1)
         ELSE [result |-> FALSE, set |-> set]

\* the loop of lines 80-84 (102-106, 123-127, 145-149) from index i on:
\* result starts false, each address is added in turn, the first refusal breaks.
RECURSIVE AddLoop(_, _, _, _)
AddLoop(set, regAddr, numRegs, i) ==
    IF i >= numRegs THEN [result |-> numRegs > 0, set |-> set]
    ELSE IF MbAddOk(set, regAddr + i)
         THEN AddLoop(set \cup {regAddr + i}, regAddr, numRegs, i + 1)
         ELSE [result |-> FALSE, set |-> set]

\* (mutant) the callbacks attached whatever the loop's result
AttachHandlersAlways(result) == TRUE

\* the test of lines 86, 108, 129, 151
AttachHandlers(result) == result

\* which kinds attach an onSet callback as well (lines 88, 131)
HasOnSet(kind) == kind \in {"Hreg", "Coil"}

RegLog(kind, tried) == [i \in 1 .. tried |-> "mb.add" \o kind]

\* The common body of the four add...Handler methods.
Register(kind, regAddr, numRegs, cb) ==
    LET loop == AddLoop(regs[kind], regAddr, numRegs, 0)
        added == Cardinality(loop.set) - Cardinality(regs[kind])
        tried == IF loop.result THEN numRegs ELSE IF numRegs = 0 THEN 0 ELSE added + 1
    IN  /\ mpc = "idle"
        /\ regCalls < MaxRegCalls
        /\ regCalls' = regCalls + 1
        /\ IF NeedsServer(mbServerEnabled)
           THEN /\ mbSlaveId' = DEFAULT_SLAVE_ID
                /\ serverCalls' = serverCalls + 1
                /\ mbServerEnabled' = TRUE
           ELSE UNCHANGED <<mbSlaveId, serverCalls, mbServerEnabled>>
        /\ regs' = [regs EXCEPT ![kind] = loop.set]
        /\ IF AttachHandlers(loop.result)
           THEN /\ onGet' = [onGet EXCEPT ![kind] = MbAttach(@, regAddr, numRegs, cb)]
                /\ onSet' = IF HasOnSet(kind)
                            THEN [onSet EXCEPT ![kind] = MbAttach(@, regAddr, numRegs, cb)]
                            ELSE onSet
           ELSE UNCHANGED <<onGet, onSet>>
        /\ stateWas' = state
        /\ ret' = Bool2Ret(loop.result)
        /\ callLog' = (IF NeedsServer(mbServerEnabled) THEN <<"mb.server">> ELSE <<>>)
                      \o RegLog(kind, tried)
                      \o (IF AttachHandlers(loop.result)
                          THEN <<"mb.onGet" \o kind>>
                               \o (IF HasOnSet(kind) THEN <<"mb.onSet" \o kind>> ELSE <<>>)
                          ELSE <<>>)
        /\ UNCHANGED <<ethVars, ioVars, now, baudRate, mbBegun, mpc, req, startTime, startAt, txOpen, txStart,
                       txResponded, data, requestsIssued, overlaps, masterCalls>>

addHoldingRegisterHandler(regAddr, numRegs, cb) ==
    Register("Hreg", regAddr, numRegs, cb) /\ op' = "addHoldingRegisterHandler"
addInputRegisterHandler(regAddr, numRegs, cb) ==
    Register("Ireg", regAddr, numRegs, cb) /\ op' = "addInputRegisterHandler"
addCoilHandler(regAddr, numCoils, cb) ==
    Register("Coil", regAddr, numCoils, cb) /\ op' = "addCoilHandler"
addDiscreteInputHandler(regAddr, numInputs, cb) ==
    Register("Ists", regAddr, numInputs, cb) /\ op' = "addDiscreteInputHandler"

RegOps == {"addHoldingRegisterHandler", "addInputRegisterHandler",
           "addCoilHandler", "addDiscreteInputHandler"}
KindOf(o) ==
    CASE o = "addHoldingRegisterHandler" -> "Hreg"
      [] o = "addInputRegisterHandler" -> "Ireg"
      [] o = "addCoilHandler" -> "Coil"
      [] OTHER -> "Ists"

\* -- master calls --
\* A request is outstanding from the moment it is sent until a valid response
\* is taken or its timeout has passed (spec 3, 4.1, 4.2: 1000 ms).
Outstanding(t) == txOpen /\ Elapsed(t, txStart) < PUMP_TIMEOUT

\* (mutant) the call returning without pumping
PumpContinueNever(t) == FALSE

\* the loop condition of lines 31, 45, 59
PumpContinue(t) == Elapsed(t, startTime) < PUMP_TIMEOUT

\* the value returned at lines 36, 50, 64
MasterResult(responded) == TRUE

\* (mutant) the buffer cleared when no response came
BufferZeroedOnTimeout(buf, numRegs, responded) ==
    IF responded THEN buf
    ELSE [i \in 0 .. (BufLen - 1) |-> IF i < numRegs THEN 0 ELSE buf[i]]

\* what the master call itself does to the caller's buffer when it returns
\* (lines 30-36: nothing, whether or not a response came)
BufferOnReturn(buf, numRegs, responded) == buf

\* mb.task() taking a valid response to the outstanding request: a read response
\* is copied into the buffer the request was given.
MbDeliver(buf, r, vals) ==
    IF r.fn = "readRegisters"
    THEN [i \in 0 .. (BufLen - 1) |-> IF i < r.numRegs THEN vals[i] ELSE buf[i]]
    ELSE buf

\* Entry of readRegisters / writeRegister / writeMultipleRegisters: the request is
\* handed to mb (lines 27, 41, 55) and startTime is taken (lines 30, 44, 58).
MasterCall(fn, slaveAddr, regAddr, numRegs) ==
    /\ mpc = "idle"
    /\ masterCalls < MaxMasterCalls
    /\ masterCalls' = masterCalls + 1
    /\ req' = [fn |-> fn, slaveAddr |-> slaveAddr, regAddr |-> regAddr, numRegs |-> numRegs]
    /\ requestsIssued' = requestsIssued + 1
    /\ overlaps' = IF Outstanding(Millis(now)) THEN overlaps + 1 ELSE overlaps
    /\ txOpen' = TRUE
    /\ txStart' = Millis(now)
    /\ txResponded' = FALSE
    /\ startTime' = Millis(now)
    /\ startAt' = now
    /\ mpc' = "pump"
    /\ stateWas' = state
    /\ op' = fn
    /\ ret' = "none"
    /\ callLog' = <<"mb.request">>
    /\ UNCHANGED <<ethVars, ioVars, now, baudRate, mbServerEnabled, mbBegun, mbSlaveId, serverCalls,
                   regs, onGet, onSet, regCalls, data>>

readRegisters(slaveAddr, regAddr, numRegs) ==
    MasterCall("readRegisters", slaveAddr, regAddr, numRegs)
writeRegister(slaveAddr, regAddr) ==
    MasterCall("writeRegister", slaveAddr, regAddr, 1)
writeMultipleRegisters(slaveAddr, regAddr, numRegs) ==
    MasterCall("writeMultipleRegisters", slaveAddr, regAddr, numRegs)

\* One pass of the loop body (lines 32-33): mb.task(), in which the response may
\* be taken, then delay; the pass takes d ms.
PumpStep(d, respond, vals) ==
    /\ mpc = "pump"
    /\ PumpContinue(Millis(now))
    /\ IF respond /\ Outstanding(Millis(now))
       THEN /\ txOpen' = FALSE
            /\ txResponded' = TRUE
            /\ data' = MbDeliver(data, req, vals)
       ELSE UNCHANGED <<txOpen, txResponded, data>>
    /\ now' = now + d
    /\ stateWas' = state
    /\ callLog' = callLog \o <<"mb.task">>
    /\ UNCHANGED <<ethVars, ioVars, baudRate, mbServerEnabled, mbBegun, mbSlaveId, serverCalls,
                   regs, onGet, onSet, regCalls, mpc, req, startTime, startAt, txStart,
                   requestsIssued, overlaps, masterCalls, op, ret>>

\* The loop condition fails and the call returns (lines 31-36).
PumpExit ==
    /\ mpc = "pump"
    /\ ~PumpContinue(Millis(now))
    /\ mpc' = "idle"
    /\ data' = BufferOnReturn(data, req.numRegs, txResponded)
    /\ ret' = Bool2Ret(MasterResult(txResponded))
    /\ stateWas' = state
    /\ UNCHANGED <<ethVars, ioVars, now, baudRate, mbServerEnabled, mbBegun, mbSlaveId, serverCalls,
                   regs, onGet, onSet, regCalls, req, startTime, startAt, txOpen, txStart, txResponded,
                   requestsIssued, overlaps, masterCalls, op, callLog>>

\* ModbusComm::task(): one mb.task() from the control loop.
MbTask(respond, vals) ==
    /\ mpc = "idle"
    /\ IF respond /\ Outstanding(Millis(now))
       THEN /\ txOpen' = FALSE
            /\ data' = MbDeliver(data, req, vals)
       ELSE UNCHANGED <<txOpen, data>>
    /\ stateWas' = state
    /\ op' = "mbTask"
    /\ ret' = "void"
    /\ callLog' = <<"mb.task">>
    /\ UNCHANGED <<ethVars, ioVars, now, baudRate, mbServerEnabled, mbBegun, mbSlaveId, serverCalls,
                   regs, onGet, onSet, regCalls, mpc, req, startTime, startAt, txStart, txResponded,
                   requestsIssued, overlaps, masterCalls>>

Responses == {ZeroBuf, [i \in 0 .. (BufLen - 1) |-> 7]}

\* Server-side registration with every range the bounds allow.
NextReg ==
    \/ \E baud \in Bauds : MbBegin(baud)
    \/ \E a \in StartAddrs, n \in 0 .. MaxCount, cb \in Callbacks :
          addHoldingRegisterHandler(a, n, cb)
    \/ \E a \in StartAddrs, n \in 0 .. MaxCount, cb \in Callbacks :
          addInputRegisterHandler(a, n, cb)
    \/ \E a \in StartAddrs, n \in 0 .. MaxCount, cb \in Callbacks :
          addCoilHandler(a, n, cb)
    \/ \E a \in StartAddrs, n \in 0 .. MaxCount, cb \in Callbacks :
          addDiscreteInputHandler(a, n, cb)

InitRegOnly == Init /\ data = ZeroBuf /\ linkStatus = "Unknown"
SpecReg == InitRegOnly /\ [][NextReg]_vars

\* The master calls, with the role escalation of a first registration.
NextMaster ==
    \/ \E n \in 0 .. 1 : addHoldingRegisterHandler(0, n, "cbA")
    \/ \E n \in 0 .. 1 : addInputRegisterHandler(0, n, "cbA")
    \/ \E n \in 0 .. 1 : addCoilHandler(0, n, "cbA")
    \/ \E n \in 0 .. 1 : addDiscreteInputHandler(0, n, "cbA")
    \/ \E n \in 1 .. BufLen : readRegisters(2, 0, n)
    \/ writeRegister(2, 0)
    \/ \E n \in 1 .. BufLen : writeMultipleRegisters(2, 0, n)
    \/ \E d \in PumpDelays, respond \in BOOLEAN, vals \in Responses : PumpStep(d, respond, vals)
    \/ PumpExit
    \/ \E respond \in BOOLEAN, vals \in Responses : MbTask(respond, vals)

InitMasterOnly == Init /\ linkStatus = "Unknown"
SpecMaster == InitMasterOnly /\ [][NextMaster]_vars

\* ------------------------------------------------------------ DHTSensors
DsFound == {0, 1}            \* devices getDeviceCount() reports (below MAX_DS18B20_SENSORS)
GateTicks == {500, 2500, 6000}

\* (mutant) the DHT block entered on every call
DhtDueAlways(t) == TRUE

\* update(): the gate of line 127
DhtDue(t) == Elapsed(t, lastReadTime) >= READ_INTERVAL

\* (mutant) the DS18B20 gate passing only after more than the interval
DsDueStrict(t) == Elapsed(t, lastDS18B20ReadTime) > DS18B20_READ_INTERVAL

\* update(): the gate of line 152
DsDue(t) == Elapsed(t, lastDS18B20ReadTime) >= DS18B20_READ_INTERVAL

\* update() at time t on an object whose sensor objects exist or not (begun) and
\* which knows count DS18B20 devices; nanRead: the DHT read returns NaN.
UpdateBody(t, begun, count, nanRead) ==
    /\ IF DhtDue(t)
       THEN /\ lastReadTime' = t
            /\ readAt' = now
            /\ dhtRuns' = dhtRuns + 1
            /\ sensorConnected' = IF begun THEN ~nanRead ELSE sensorConnected
       ELSE UNCHANGED <<lastReadTime, readAt, dhtRuns, sensorConnected>>
    /\ IF DsDue(t)
       THEN /\ lastDS18B20ReadTime' = t
            /\ dsAt' = now
            /\ dsRuns' = dsRuns + 1
       ELSE UNCHANGED <<lastDS18B20ReadTime, dsAt, dsRuns>>

\* the sensor accesses update() makes (lines 135, 144, 157, 161)
UpdateLog(t, begun, count) ==
    (IF DhtDue(t) /\ begun THEN <<"dht.readTemperature", "dht.readHumidity">> ELSE <<>>)
    \o (IF DsDue(t) /\ begun /\ count > 0
        THEN <<"ds.requestTemperatures", "ds.getTempC">> ELSE <<>>)

DhtUpdate(nanRead) ==
    /\ mpc = "idle"
    /\ dhtRuns < MaxRuns /\ dsRuns < MaxRuns
    /\ UpdateBody(Millis(now), dhtBegun, ds18b20Count, nanRead)
    /\ callLog' = UpdateLog(Millis(now), dhtBegun, ds18b20Count)
    /\ stateWas' = state
    /\ op' = "update"
    /\ ret' = "void"
    /\ UNCHANGED <<ethVars, mbVars, diVars, relayVars, now, ds18b20Count, dhtBegun>>

\* begin(): the sensor objects are created, the DS18B20 bus is searched (found
\* devices, addrOk: getAddress succeeds), and update() is called (line 94).
DhtBegin(found, addrOk, nanRead) ==
    /\ mpc = "idle"
    /\ dhtRuns < MaxRuns /\ dsRuns < MaxRuns
    /\ dhtBegun' = TRUE
    /\ ds18b20Count' = found
    /\ UpdateBody(Millis(now), TRUE, found, nanRead)
    /\ callLog' = <<"dht.begin", "ds.begin", "ds.getDeviceCount">>
                  \o (IF found > 0 THEN <<"ds.getAddress">> ELSE <<>>)
                  \o (IF found > 0 /\ addrOk THEN <<"ds.setResolution">> ELSE <<>>)
                  \o UpdateLog(Millis(now), TRUE, found)
    /\ stateWas' = state
    /\ op' = "dhtBegin"
    /\ ret' = Bool2Ret(found = 0 \/ addrOk)
    /\ UNCHANGED <<ethVars, mbVars, diVars, relayVars, now>>

\* One pass of the control loop: update() is called, and the pass (this call and
\* everything else the loop does) takes d ms.
LoopPass(d, nanRead) ==
    /\ mpc = "idle"
    /\ now + d <= MaxLoopNow
    /\ UpdateBody(Millis(now), dhtBegun, ds18b20Count, nanRead)
    /\ callLog' = UpdateLog(Millis(now), dhtBegun, ds18b20Count)
    /\ now' = now + d
    /\ stateWas' = state
    /\ op' = "update"
    /\ ret' = "void"
    /\ UNCHANGED <<ethVars, mbVars, diVars, relayVars, ds18b20Count, dhtBegun>>

\* The time gates under a loop that may stall: the sensors and the link check.
NextGates ==
    \/ \E found \in DsFound, addrOk \in BOOLEAN, nanRead \in BOOLEAN :
          DhtBegin(found, addrOk, nanRead)
    \/ \E nanRead \in BOOLEAN : DhtUpdate(nanRead)
    \/ EthTask(localIP)
    \/ \E d \in GateTicks : Tick(d)

InitGates == Init /\ data = ZeroBuf /\ linkStatus = "LinkON"
SpecGates == InitGates /\ [][NextGates]_vars

\* The scenario of a loop that calls update() every LOOP_TICK ms from time 0.
LOOP_TICK == 10
NextScenario ==
    \/ /\ now = 0
       /\ ~dhtBegun
       /\ \E found \in DsFound : DhtBegin(found, TRUE, FALSE)
    \/ \E nanRead \in BOOLEAN : LoopPass(LOOP_TICK, nanRead)

InitScenario == Init /\ data = ZeroBuf /\ linkStatus = "Unknown"
SpecScenario == InitScenario /\ [][NextScenario]_vars

\* A loop whose passes take different times, none longer than the shortest period.
CadencePasses == {100, 700}
MaxPass == CHOOSE m \in CadencePasses : \A x \in CadencePasses : x <= m
NextCadence ==
    \/ /\ now = 0
       /\ ~dhtBegun
       /\ \E found \in DsFound : DhtBegin(found, TRUE, FALSE)
    \/ \E d \in CadencePasses : LoopPass(d, FALSE)

SpecCadence == InitScenario /\ [][NextCadence]_vars

\* ---------------------------------------------------------- DigitalInputs
Ports == {0, 254, 255}       \* values read from PORTB
I2CFails == 0 .. DI_MAX_ATTEMPTS    \* bus errors the expander would give, first tries first

\* begin(): the attempt loop of lines 12-30.  The body ends in `success = true;
\* break;` whatever the bus did, so the loop is left in its first round.
DiLoop(i2cFails) == [success |-> TRUE, attempts |-> 1]

\* what one round calls (lines 13-27); the attempt-th try meets a bus error when
\* attempt <= i2cFails
DiAttemptLog(attempt, i2cFails) ==
    <<"Wire.setClock:slow",
      IF attempt <= i2cFails THEN "mcp.begin:err" ELSE "mcp.begin:ok",
      "mcp.pinMode", "setupInterrupts", "mcp.readPort">>

RECURSIVE DiLog(_, _, _)
DiLog(attempt, attempts, i2cFails) ==
    IF attempt > attempts THEN <<>>
    ELSE DiAttemptLog(attempt, i2cFails) \o DiLog(attempt + 1, attempts, i2cFails)

\* the delays of one round: 8 x delay(5) (line 20) and delay(5) (line 67)
DiAttemptTime == 8 * 5 + 5

DiBegin(i2cFails, port) ==
    LET loop == DiLoop(i2cFails)
    IN  /\ mpc = "idle"
        /\ now + loop.attempts * DiAttemptTime <= MaxNow
        /\ lastInputState' = port
        /\ wireClock' = IF loop.success THEN WIRE_NORMAL ELSE WIRE_SLOW
        /\ now' = now + loop.attempts * DiAttemptTime
        /\ callLog' = DiLog(1, loop.attempts, i2cFails)
                      \o (IF loop.success THEN <<"Wire.setClock:normal">> ELSE <<>>)
        /\ stateWas' = state
        /\ op' = "diBegin"
        /\ ret' = Bool2Ret(loop.success)
        /\ UNCHANGED <<ethVars, mbVars, sensVars, relayVars>>

\* readAllInputs(): the port is read, remembered, and returned inverted.
ReadAllInputs(port) ==
    /\ mpc = "idle"
    /\ lastInputState' = port
    /\ callLog' = <<"mcp.readPort">>
    /\ stateWas' = state
    /\ op' = "readAllInputs"
    /\ ret' = ToString(255 - port)
    /\ UNCHANGED <<ethVars, mbVars, sensVars, relayVars, wireClock, now>>

NextInputs ==
    \/ \E i2cFails \in I2CFails, port \in Ports : DiBegin(i2cFails, port)
    \/ \E port \in Ports : ReadAllInputs(port)
    \/ \E d \in TickSteps : Tick(d)

SpecInputs == InitScenario /\ [][NextInputs]_vars

\* ----------------------------------------------------------- RelayOutputs
\* bit n of an 8-bit pattern, and the pattern with bit n set / cleared
Bit(x, n) == (x \div (2 ^ n)) % 2
SetBit(x, n) == IF Bit(x, n) = 1 THEN x ELSE (x + 2 ^ n) % 256
ClearBit(x, n) == IF Bit(x, n) = 1 THEN x - 2 ^ n ELSE x
Level(b) == IF b THEN "HIGH" ELSE "LOW"

RelayNums == {0, 1, NUM_RELAY_OUTPUTS - 1, NUM_RELAY_OUTPUTS, 255}
RelayPatterns == {0, 5, 63, 130, 255}

\* begin(): every relay pin made an output and written HIGH, relayStates cleared.
RelayBegin ==
    /\ mpc = "idle"
    /\ relayPins' = [n \in 0 .. (NUM_RELAY_OUTPUTS - 1) |-> "HIGH"]
    /\ relayStates' = 0
    /\ callLog' = <<"mcp.begin", "mcp.pinMode", "W:HIGH">>
    /\ stateWas' = state
    /\ op' = "relayBegin"
    /\ ret' = "true"
    /\ UNCHANGED <<ethVars, mbVars, sensVars, diVars, now>>

\* the test of lines 21, 39, 48
RelayInRange(relayNum) == relayNum < NUM_RELAY_OUTPUTS

\* getRelayState(relayNum)
getRelayState(relayNum) == RelayInRange(relayNum) /\ Bit(relayStates, relayNum) = 1

\* the body of setRelay (lines 21-35)
SetRelayBody(relayNum, st) ==
    IF RelayInRange(relayNum)
    THEN /\ relayPins' = [relayPins EXCEPT ![relayNum] = Level(st)]
         /\ relayStates' = IF st THEN SetBit(relayStates, relayNum)
                           ELSE ClearBit(relayStates, relayNum)
         /\ callLog' = <<"W:" \o Level(st)>>
         /\ ret' = "true"
    ELSE /\ UNCHANGED relayVars
         /\ callLog' = <<>>
         /\ ret' = "false"

SetRelay(relayNum, st) ==
    /\ mpc = "idle"
    /\ SetRelayBody(relayNum, st)
    /\ stateWas' = state
    /\ op' = "setRelay"
    /\ UNCHANGED <<ethVars, mbVars, sensVars, diVars, now>>

\* toggleRelay(): setRelay with the opposite of the tracked state
ToggleRelay(relayNum) ==
    /\ mpc = "idle"
    /\ SetRelayBody(relayNum, ~getRelayState(relayNum))
    /\ stateWas' = state
    /\ op' = "toggleRelay"
    /\ UNCHANGED <<ethVars, mbVars, sensVars, diVars, now>>

\* setAllRelays(states): one write per relay, then the masked pattern is kept.
SetAllRelays(states) ==
    /\ mpc = "idle"
    /\ relayPins' = [n \in 0 .. (NUM_RELAY_OUTPUTS - 1) |-> Level(Bit(states, n) = 1)]
    /\ relayStates' = states % (2 ^ NUM_RELAY_OUTPUTS)
    /\ callLog' = [n \in 1 .. NUM_RELAY_OUTPUTS |-> "W:" \o Level(Bit(states, n - 1) = 1)]
    /\ stateWas' = state
    /\ op' = "setAllRelays"
    /\ ret' = "void"
    /\ UNCHANGED <<ethVars, mbVars, sensVars, diVars, now>>

NextRelays ==
    \/ RelayBegin
    \/ \E relayNum \in RelayNums, st \in BOOLEAN : SetRelay(relayNum, st)
    \/ \E relayNum \in RelayNums : ToggleRelay(relayNum)
    \/ \E states \in RelayPatterns : SetAllRelays(states)

SpecRelays == InitScenario /\ [][NextRelays]_vars

\* ------------------------------------------------------------ long uptime
WrapTicks == {1000, 2000}
WrapStart == MILLIS_WRAP - 6000
MaxWrapNow == MILLIS_WRAP + 3000

\* The control loop spends d ms elsewhere, the counter going round if it must.
WrapTick(d) ==
    /\ mpc = "idle"
    /\ now + d <= MaxWrapNow
    /\ now' = now + d
    /\ stateWas' = state
    /\ op' = "tick"
    /\ ret' = "void"
    /\ callLog' = <<>>
    /\ UNCHANGED <<ethVars, mbVars, ioVars>>

\* The three kinds of elapsed-time test over an uptime that takes millis() round.
NextWrap ==
    \/ EthTask(localIP)
    \/ DhtUpdate(FALSE)
    \/ readRegisters(2, 0, 1)
    \/ \E d \in PumpDelays : PumpStep(d, FALSE, ZeroBuf)
    \/ PumpExit
    \/ \E d \in WrapTicks : WrapTick(d)

\* The board some seconds before millis() goes round, no gate having run yet.
InitWrap ==
    /\ InitEth /\ InitMb /\ InitSens /\ InitDi /\ InitRelay
    /\ data = ZeroBuf
    /\ linkStatus = "LinkON"
    /\ now = WrapStart
    /\ op = "none"
    /\ stateWas = "NETWORK_DISCONNECTED"
    /\ ret = "none"
    /\ callLog = <<>>

SpecWrap == InitWrap /\ [][NextWrap]_vars

Next ==
    NextEth \/ NextWrap \/ NextReg \/ NextMaster \/ NextGates \/ NextScenario \/ NextCadence
    \/ NextInputs \/ NextRelays
Spec == Init /\ [][Next]_vars

\* =================================================================== claims
InLog(e) == \E i \in 1 .. Len(callLog) : callLog[i] = e
Polled == InLog("Ethernet.linkStatus")
BringUpEvents ==
    {"SPI.begin", "Ethernet.init", "Ethernet.begin.static",
     "Ethernet.begin.dhcp:0", "Ethernet.begin.dhcp:1"}
PinEvents == {"pinMode", "W:LOW", "W:HIGH"}

\* C1 (as claimed): once state is Error, a task() call leaves it Error, whatever
\* link status is reported.
C1_ErrorSticky ==
    (op = "task" /\ stateWas = "NETWORK_ERROR") => state = "NETWORK_ERROR"

\* C2: begin() with the reset line bound ends in Error and returns false when DHCP
\* failed or the local address is 0.0.0.0, and in Connected returning true in
\* every other case, from any earlier state.
C2_BeginOutcome ==
    (op = "begin" /\ mcpInitialized /\ mcpDevice = "mcp") =>
        IF InLog("Ethernet.begin.dhcp:0") \/ localIP = ZeroIP
        THEN state = "NETWORK_ERROR" /\ ret = "false"
        ELSE state = "NETWORK_CONNECTED" /\ ret = "true"

\* C2 witness: a begin() that found the state Error and left it Connected.
C2_Witness ==
    /\ op = "begin"
    /\ mcpInitialized
    /\ stateWas = "NETWORK_ERROR"
    /\ state = "NETWORK_CONNECTED"
    /\ ret = "true"

\* C3: task() moves Connected to Disconnected when a due poll finds the link off,
\* once per link-down event (a poll that finds the state Disconnected and the link
\* still off changes nothing), moves Disconnected to Connected when a due poll
\* finds the link on, and makes no pin write and no bring-up call.
C3_LinkPolling ==
    /\ drops <= 1
    /\ op = "task" =>
        /\ \A e \in BringUpEvents \cup PinEvents : ~InLog(e)
        /\ (Polled /\ linkStatus = "LinkOFF") =>
              /\ state = "NETWORK_DISCONNECTED"
              /\ stateWas = "NETWORK_CONNECTED" => drops = 1
        /\ (Polled /\ linkStatus = "LinkON" /\ stateWas = "NETWORK_DISCONNECTED") =>
              state = "NETWORK_CONNECTED"
        /\ (stateWas = "NETWORK_CONNECTED" /\ state # "NETWORK_CONNECTED") =>
              state = "NETWORK_DISCONNECTED" /\ linkStatus = "LinkOFF" /\ Polled
        /\ (stateWas = "NETWORK_DISCONNECTED" /\ state # "NETWORK_DISCONNECTED") =>
              state = "NETWORK_CONNECTED" /\ linkStatus = "LinkON" /\ Polled

\* C3 witness: the link dropped, task() recorded it once, and a later poll has
\* brought the state back to Connected.
C3_Witness ==
    /\ op = "task"
    /\ stateWas = "NETWORK_DISCONNECTED"
    /\ state = "NETWORK_CONNECTED"
    /\ drops = 1

\* C4 (as claimed): a master call that got no valid response within its window
\* returns something else than a call that got one.
C4_TimeoutReported ==
    (op \in MasterFns /\ mpc = "idle" /\ ~txResponded) => ret # "true"

\* C5: while a readRegisters call runs and takes no response, no step of it
\* changes the caller's buffer, the return included.
C5_BufferRetained ==
    [][(op' = "readRegisters" /\ ~txResponded') => data' = data]_vars

\* C5 witness: a readRegisters call has returned without a response and the
\* buffer still holds the nonzero reading it held before.
C5_Witness ==
    /\ op = "readRegisters"
    /\ mpc = "idle"
    /\ ~txResponded
    /\ \A i \in 0 .. (BufLen - 1) : data[i] = 7

\* C6 (as claimed): a registration call that returns false leaves the register
\* map and the callbacks as they were.
C6_AllOrNothing ==
    [][(op' \in RegOps /\ ret' = "false") =>
          (regs' = regs /\ onGet' = onGet /\ onSet' = onSet)]_vars

\* C7: a registration of a non-empty range with no address already registered for
\* the kind returns true and registers the range; one that overlaps registered
\* addresses returns false and leaves every attached callback as it was.
C7_Registration ==
    [][\A k \in Kinds, a \in StartAddrs, n \in 1 .. MaxCount, cb \in Callbacks :
          Register(k, a, n, cb) =>
              IF \A x \in a .. (a + n - 1) : x \notin regs[k]
              THEN ret' = "true" /\ \A x \in a .. (a + n - 1) : x \in regs'[k]
              ELSE ret' = "false" /\ onGet' = onGet /\ onSet' = onSet]_vars

\* C7 witness: a registration was refused on an address that was already
\* registered, and an address of that kind still carries a callback.
C7_Witness ==
    /\ op \in RegOps
    /\ ret = "false"
    /\ callLog # <<>>
    /\ \E x \in regs[KindOf(op)] : onGet[KindOf(op)][x] \in Callbacks

\* C8: mb.server(1) has been invoked exactly once as soon as any registration call
\* was made and never before, the flag stays set from then on, and the master
\* calls can still be started.
C8_ServerMonotonic ==
    /\ regCalls = 0 => (~mbServerEnabled /\ serverCalls = 0 /\ mbSlaveId = 0)
    /\ regCalls > 0 => (mbServerEnabled /\ serverCalls = 1 /\ mbSlaveId = 1)
    /\ (mbServerEnabled /\ mpc = "idle" /\ masterCalls < MaxMasterCalls) =>
          /\ ENABLED readRegisters(2, 0, 1)
          /\ ENABLED writeRegister(2, 0)
          /\ ENABLED writeMultipleRegisters(2, 0, 1)

\* C8 witness: after two registration calls a master call has run to its end.
C8_Witness ==
    /\ regCalls = 2
    /\ mbServerEnabled
    /\ op \in MasterFns
    /\ mpc = "idle"
    /\ ret = "true"

\* C9: no request is sent while an earlier one is outstanding, every master call
\* sends one request, nothing is outstanding between calls, and a call returns no
\* sooner than 1000 ms after it took its start time.
C9_SingleTransaction ==
    /\ overlaps = 0
    /\ requestsIssued = masterCalls
    /\ mpc = "idle" => ~Outstanding(now)
    /\ (mpc = "idle" /\ op \in MasterFns) => Elapsed(now, startTime) >= PUMP_TIMEOUT

\* C9 witness: a second request is on the wire after the first call ran out
\* unanswered.
C9_Witness ==
    /\ masterCalls = 2
    /\ requestsIssued = 2
    /\ mpc = "pump"
    /\ Outstanding(now)
    /\ now >= PUMP_TIMEOUT

\* C10: reset() with no reset line bound returns false, writes no pin and changes
\* nothing else.
C10_ResetUnbound ==
    [][(op' = "reset" /\ mcpDevice = "nullptr") =>
          (ret' = "false" /\ callLog' = <<>> /\ UNCHANGED <<ethVars, mbVars, now>>)]_vars

\* C10 witness: reset() was called before initMCP and refused.
C10_Witness ==
    /\ op = "reset"
    /\ ret = "false"
    /\ ~mcpInitialized
    /\ mcpDevice = "nullptr"
    /\ resetPin = "unset"

\* C11: reset() with the reset line bound writes LOW, waits, writes HIGH, waits and
\* returns true: two pin writes in that order, the clock 2 x ETH_RESET_DURATION
\* further on when it returns, and the line HIGH whenever the control thread is
\* outside reset() once the line is bound.
C11_ResetSequence ==
    [][/\ (op' = "reset" /\ mcpInitialized /\ mcpDevice = "mcp") =>
             /\ ret' = "true"
             /\ callLog' = <<"W:LOW", "delay", "W:HIGH", "delay">>
             /\ now' = now + 2 * ETH_RESET_DURATION
             /\ resetPin' = "HIGH"
       /\ mcpInitialized' => resetPin' = "HIGH"]_vars

\* C11 witness: a reset() on a bound line has returned true.
C11_Witness ==
    /\ op = "reset"
    /\ ret = "true"
    /\ mcpInitialized
    /\ resetPin = "HIGH"
    /\ Len(callLog) = 4
    /\ now >= 2 * ETH_RESET_DURATION

Pos(e) == CHOOSE i \in 1 .. Len(callLog) : callLog[i] = e
EthBringUpEvents ==
    {"Ethernet.init", "Ethernet.begin.static", "Ethernet.begin.dhcp:0",
     "Ethernet.begin.dhcp:1", "Ethernet.localIP"}

\* C12: in a begin() with the reset line bound the LOW and HIGH writes of the reset
\* come, in that order, before Ethernet.init and Ethernet.begin; a begin() with no
\* line bound ends in Error, returns false and calls nothing of the controller
\* bring-up or address configuration.
C12_ResetBeforeBringUp ==
    op = "begin" =>
        IF mcpInitialized /\ mcpDevice = "mcp"
        THEN /\ InLog("W:LOW") /\ InLog("W:HIGH") /\ InLog("Ethernet.init")
             /\ Pos("W:LOW") < Pos("W:HIGH")
             /\ \A i \in 1 .. Len(callLog) :
                   callLog[i] \in EthBringUpEvents => Pos("W:HIGH") < i
             /\ \E i \in 1 .. Len(callLog) :
                   callLog[i] \in {"Ethernet.begin.static", "Ethernet.begin.dhcp:0",
                                   "Ethernet.begin.dhcp:1"}
        ELSE /\ state = "NETWORK_ERROR"
             /\ ret = "false"
             /\ \A e \in EthBringUpEvents \cup PinEvents : ~InLog(e)

\* C12 witness: a begin() with the line bound has gone through reset and DHCP.
C12_Witness ==
    /\ op = "begin"
    /\ mcpInitialized
    /\ InLog("W:HIGH")
    /\ InLog("Ethernet.begin.dhcp:1")
    /\ ret = "true"

\* the other case of C12: a begin() with no reset line bound has failed
C12_WitnessUnbound ==
    /\ op = "begin"
    /\ ~mcpInitialized
    /\ ret = "false"
    /\ state = "NETWORK_ERROR"

DhtEvents == {"dht.readTemperature", "dht.readHumidity"}
DsEvents == {"ds.requestTemperatures", "ds.getTempC"}
Count(e) == Cardinality({i \in 1 .. Len(callLog') : callLog'[i] = e})

\* C13: each time gate (link check 5000 ms, DHT 2000 ms, DS18B20 1000 ms) is a rate
\* limiter without backlog: a call enters the gated work at most once, and only
\* when a period or more has passed since the work last ran, the timestamp then
\* becoming the time of the call; a call made earlier touches no hardware and
\* leaves the timestamp and the subsystem's state as they were; a call made after
\* several periods enters the work once.
C13_RateLimiter ==
    [][/\ (op' \in {"update", "dhtBegin"}) =>
             /\ dhtRuns' \in {dhtRuns, dhtRuns + 1}
             /\ dsRuns' \in {dsRuns, dsRuns + 1}
             /\ dhtRuns' = dhtRuns + 1 <=> now - lastReadTime >= READ_INTERVAL
             /\ dsRuns' = dsRuns + 1 <=> now - lastDS18B20ReadTime >= DS18B20_READ_INTERVAL
             /\ IF dhtRuns' = dhtRuns + 1
                THEN lastReadTime' = now /\ \A e \in DhtEvents : Count(e) <= 1
                ELSE /\ UNCHANGED <<lastReadTime, sensorConnected>>
                     /\ \A e \in DhtEvents : Count(e) = 0
             /\ IF dsRuns' = dsRuns + 1
                THEN lastDS18B20ReadTime' = now /\ \A e \in DsEvents : Count(e) <= 1
                ELSE /\ UNCHANGED lastDS18B20ReadTime
                     /\ \A e \in DsEvents : Count(e) = 0
       /\ (op' = "task") =>
             IF now - lastCheckTime >= CHECK_INTERVAL
             THEN lastCheckTime' = now /\ Count("Ethernet.linkStatus") = 1
             ELSE UNCHANGED ethVars /\ callLog' = <<>>]_vars

\* C13 witness: after a stall the DS18B20 block has just run for the second time,
\* seven periods or more after boot, and the link check has run too.
C13_Witness ==
    /\ op = "update"
    /\ dsRuns = 2
    /\ dhtRuns = 1
    /\ lastDS18B20ReadTime = now
    /\ now >= 7 * DS18B20_READ_INTERVAL
    /\ lastCheckTime >= CHECK_INTERVAL

\* C14: with update() called every 10 ms from time 0 and both timestamps starting
\* at 0, once the call at 2000 ms has been made the DS18B20 block (1000 ms) has run
\* exactly twice and the DHT block (2000 ms) exactly once; just before that call
\* they have run once and not at all.
C14_Scenario ==
    /\ now = 2000 => (dsRuns = 1 /\ dhtRuns = 0)
    /\ now = 2000 + LOOP_TICK => (dsRuns = 2 /\ dhtRuns = 1)

\* C14 witness: the pass that began at 2000 ms ran both blocks.
C14_Witness ==
    /\ op = "update"
    /\ now = 2000 + LOOP_TICK
    /\ lastReadTime = 2000
    /\ lastDS18B20ReadTime = 2000
    /\ dsRuns = 2
    /\ dhtRuns = 1

\* C15 (as claimed): with loop passes no longer than the shortest period, the k-th
\* run of each block is late on k periods by no more than one loop pass.
C15_NoDrift ==
    /\ dsRuns > 0 => lastDS18B20ReadTime - dsRuns * DS18B20_READ_INTERVAL <= MaxPass
    /\ dhtRuns > 0 => lastReadTime - dhtRuns * READ_INTERVAL <= MaxPass

\* C16 (as claimed): after a task() call that made the link check the state is
\* Connected or Disconnected.
C16_SteadyStates ==
    (op = "task" /\ Polled) => state \in {"NETWORK_CONNECTED", "NETWORK_DISCONNECTED"}

Occurrences(e) == Cardinality({i \in 1 .. Len(callLog) : callLog[i] = e})

\* C18 (as claimed): DigitalInputs::begin() tries again after an attempt that met
\* an I2C error, up to 3 attempts; it returns true with the bus clock back to
\* normal when an attempt went through, and false with the clock left slow when
\* all 3 failed.
C18_Retry ==
    op = "diBegin" =>
        IF Occurrences("mcp.begin:ok") = 0
        THEN /\ Occurrences("mcp.begin:err") = DI_MAX_ATTEMPTS
             /\ ret = "false"
             /\ wireClock = WIRE_SLOW
        ELSE /\ Occurrences("mcp.begin:ok") = 1
             /\ Occurrences("mcp.begin:err") < DI_MAX_ATTEMPTS
             /\ ret = "true"
             /\ wireClock = WIRE_NORMAL

\* C19 (as claimed): when DHTSensors::begin() returns, the DHT sensors have been
\* read, and so have the DS18B20 sensors if any was found, at whatever time
\* begin() was called.
C19_InitialReading ==
    op = "dhtBegin" =>
        /\ InLog("dht.readTemperature")
        /\ ds18b20Count > 0 => InLog("ds.requestTemperatures")

\* C20 (as claimed): the state is Connected only if some begin() has returned true.
C20_ConnectedAfterBegin ==
    state = "NETWORK_CONNECTED" => beginOk

\* C21 (as claimed): for every relay n bit n of relayStates is 1 exactly when the
\* level last written to pin n is HIGH, the bits from NUM_RELAY_OUTPUTS up are 0,
\* and a call refused for its relay number has written no pin.
C21_BitsTrackPins ==
    /\ \A n \in 0 .. (NUM_RELAY_OUTPUTS - 1) :
          Bit(relayStates, n) = 1 <=> relayPins[n] = "HIGH"
    /\ relayStates < 2 ^ NUM_RELAY_OUTPUTS
    /\ (op \in {"setRelay", "toggleRelay"} /\ ret = "false") => callLog = <<>>

\* what does hold of the relay bits: the high bits are clear, a refused call
\* writes nothing, and a pin written LOW has its bit clear
RelayBitsSound ==
    /\ relayStates < 2 ^ NUM_RELAY_OUTPUTS
    /\ (op \in {"setRelay", "toggleRelay"} /\ ret = "false") => callLog = <<>>
    /\ \A n \in 0 .. (NUM_RELAY_OUTPUTS - 1) :
          /\ Bit(relayStates, n) = 1 => relayPins[n] = "HIGH"
          /\ relayPins[n] = "unset" => Bit(relayStates, n) = 0

\* C22: a registration call with count 0 returns false; a registration call that
\* returns false, for that or because an address was refused, attaches and
\* changes no callback, and still leaves the server role enabled with slave id 1,
\* mb.server having been called by it if it was the first registration call.
C22_FailedStillServer ==
    [][\A k \in Kinds, a \in StartAddrs, n \in 0 .. MaxCount, cb \in Callbacks :
          Register(k, a, n, cb) =>
              /\ n = 0 => ret' = "false"
              /\ ret' = "false" =>
                    /\ onGet' = onGet /\ onSet' = onSet
                    /\ \A e \in {"mb.onGet" \o k, "mb.onSet" \o k} :
                          \A i \in 1 .. Len(callLog') : callLog'[i] # e
                    /\ mbServerEnabled' /\ mbSlaveId' = DEFAULT_SLAVE_ID
                    /\ regCalls = 0 => (serverCalls' = 1 /\ callLog'[1] = "mb.server")]_vars

\* C22 witness: the first registration call failed (count 0) and the server role
\* is on with no callback attached anywhere.
C22_Witness ==
    /\ op \in RegOps
    /\ ret = "false"
    /\ regCalls = 1
    /\ mbServerEnabled
    /\ mbSlaveId = DEFAULT_SLAVE_ID
    /\ serverCalls = 1
    /\ onGet = NoCallbacks
    /\ onSet = NoCallbacks

\* the other case of C22: a later call failed on a refused address
C22_WitnessRefused ==
    /\ op \in RegOps
    /\ ret = "false"
    /\ regCalls = 2
    /\ InLog("mb.add" \o KindOf(op))
    /\ mbServerEnabled

\* C23: as long as less than one full round of the counter has passed since a gate
\* last ran, the gate passes exactly when a period or more has passed since then,
\* whether or not millis() has gone round in between; the pump loop of a master
\* call goes on exactly while less than 1000 ms have passed since its start, so it
\* is left within one loop pass after 1000 ms.
C23_WrapSafe ==
    [][/\ (op' = "task" /\ now - checkAt < MILLIS_WRAP) =>
             IF now - checkAt >= CHECK_INTERVAL
             THEN checkAt' = now /\ lastCheckTime' = now % MILLIS_WRAP
             ELSE UNCHANGED <<checkAt, lastCheckTime>>
       /\ (op' = "update" /\ now - readAt < MILLIS_WRAP) =>
             IF now - readAt >= READ_INTERVAL
             THEN dhtRuns' = dhtRuns + 1 /\ readAt' = now
             ELSE UNCHANGED <<dhtRuns, readAt, lastReadTime>>
       /\ (op' = "update" /\ now - dsAt < MILLIS_WRAP) =>
             IF now - dsAt >= DS18B20_READ_INTERVAL
             THEN dsRuns' = dsRuns + 1 /\ dsAt' = now
             ELSE UNCHANGED <<dsRuns, dsAt, lastDS18B20ReadTime>>
       /\ (mpc = "pump" /\ mpc' = "pump") => now - startAt < PUMP_TIMEOUT
       /\ (mpc = "pump" /\ mpc' = "idle") => now - startAt >= PUMP_TIMEOUT
       /\ mpc' = "pump" => now' - startAt' < 2 * PUMP_TIMEOUT]_vars

\* C23 witness: millis() has gone round since the DS18B20 block last ran (the
\* stored timestamp is ahead of the counter), the block has just run again, and a
\* master call that started before the counter went round has returned.
C23_Witness ==
    /\ op = "update"
    /\ mpc = "idle"
    /\ now >= MILLIS_WRAP
    /\ dsAt = now
    /\ dsRuns = 2
    /\ readAt < MILLIS_WRAP
    /\ lastReadTime > Millis(now)
    /\ masterCalls > 0
    /\ startAt < MILLIS_WRAP
    /\ startAt + PUMP_TIMEOUT >= MILLIS_WRAP

====
